---- MODULE Spec2Model ----
(***************************************************************************)
(* A model of src/utils/serve-functions.js: the local HTTP-to-function     *)
(* bridge.  The dispatcher returned by createHandler, the completion       *)
(* callback made by createCallback, promiseCallback, handleErr and the     *)
(* watcher callback clearCache are translated from the source.  Node's     *)
(* require / require.resolve / require.cache and the http response object  *)
(* are modelled by the part of their behaviour the source relies on.       *)
(***************************************************************************)
EXTENDS Integers, Sequences, FiniteSets, TLC

(***************************************************************************)
(* Bounds of the model.                                                    *)
(***************************************************************************)
MaxInv == 2          \* invocations (HTTP requests) that may be in flight
MaxEdits == 1        \* filesystem changes the environment makes
MaxAsyncCalls == 1   \* deferred callback calls one handler run makes

(***************************************************************************)
(* JavaScript values.  Every value is a record with a type tag t.  Strings *)
(* that the code inspects are sequences of character codes.                *)
(***************************************************************************)
JsUndefined == [t |-> "undefined"]
JsNull == [t |-> "null"]
JsNaN == [t |-> "nan"]
JsNum(n) == [t |-> "number", v |-> n]
JsStr(s) == [t |-> "string", v |-> s]
JsObj == [t |-> "object"]

IsDigit(c) == c >= 48 /\ c <= 57

RECURSIVE DigitsValue(_)
DigitsValue(s) ==
  IF s = <<>> THEN 0
  ELSE 10 * DigitsValue(SubSeq(s, 1, Len(s) - 1)) + (s[Len(s)] - 48)

\* Number(x) of line 188, for the values the model draws.
ToNumber(x) ==
  CASE x.t = "number" -> x
    [] x.t = "nan" -> JsNaN
    [] x.t = "null" -> JsNum(0)
    [] x.t = "string" ->
         IF \A k \in 1..Len(x.v) : IsDigit(x.v[k])
         THEN JsNum(DigitsValue(x.v)) ELSE JsNaN
    [] OTHER -> JsNaN

\* JavaScript truthiness.
Truthy(x) ==
  CASE x.t = "number" -> x.v # 0
    [] x.t = "string" -> x.v # <<>>
    [] x.t = "boolean" -> x.v
    [] x.t \in {"undefined", "null", "nan"} -> FALSE
    [] OTHER -> TRUE

\* typeof x === "string"
IsString(x) == x.t = "string"

\* x.toString() exists: null and undefined have no properties.
HasToString(x) == x.t \notin {"undefined", "null"}

(***************************************************************************)
(* Base64 text to bytes, as Buffer.from(text, "base64") does for text over *)
(* the base64 alphabet: the sextets before the first '=' are concatenated  *)
(* and cut into whole bytes.                                               *)
(***************************************************************************)
B64Index(c) ==
  CASE c >= 65 /\ c <= 90 -> c - 65
    [] c >= 97 /\ c <= 122 -> c - 71
    [] c >= 48 /\ c <= 57 -> c + 4
    [] c = 43 -> 62
    [] c = 47 -> 63
    [] OTHER -> -1

RECURSIVE B64Sextets(_)
B64Sextets(s) ==
  IF s = <<>> \/ s[1] = 61 THEN <<>>
  ELSE IF B64Index(s[1]) < 0 THEN B64Sextets(Tail(s))
  ELSE <<B64Index(s[1])>> \o B64Sextets(Tail(s))

RECURSIVE B64Bytes(_)
B64Bytes(x) ==
  IF Len(x) >= 4
  THEN << x[1] * 4 + (x[2] \div 16),
          (x[2] % 16) * 16 + (x[3] \div 4),
          (x[3] % 4) * 64 + x[4] >> \o B64Bytes(SubSeq(x, 5, Len(x)))
  ELSE IF Len(x) = 3
  THEN << x[1] * 4 + (x[2] \div 16), (x[2] % 16) * 16 + (x[3] \div 4) >>
  ELSE IF Len(x) = 2
  THEN << x[1] * 4 + (x[2] \div 16) >>
  ELSE <<>>

Base64Decode(s) == B64Bytes(B64Sextets(s))

(***************************************************************************)
(* The http response object.  statusCode, headers and chunks are what is   *)
(* sent; an operation on a response that has been ended changes nothing    *)
(* that is sent and is recorded in afterEnd.                               *)
(***************************************************************************)
NoHeaders == [k \in {} |-> <<>>]

NewResponse ==
  [statusCode |-> JsNum(200), headers |-> NoHeaders, chunks |-> <<>>,
   ended |-> FALSE, afterEnd |-> FALSE]

SetStatus(r, s) ==
  IF r.ended THEN [r EXCEPT !.afterEnd = TRUE] ELSE [r EXCEPT !.statusCode = s]

SetHeaders(r, h) ==
  IF DOMAIN h = {} THEN r
  ELSE IF r.ended THEN [r EXCEPT !.afterEnd = TRUE]
  ELSE [r EXCEPT !.headers =
          [k \in DOMAIN r.headers \cup DOMAIN h |->
             IF k \in DOMAIN h THEN h[k] ELSE r.headers[k]]]

Write(r, chunk) ==
  IF r.ended THEN [r EXCEPT !.afterEnd = TRUE]
  ELSE [r EXCEPT !.chunks = Append(@, chunk)]

End(r) ==
  IF r.ended THEN [r EXCEPT !.afterEnd = TRUE] ELSE [r EXCEPT !.ended = TRUE]

(***************************************************************************)
(* handleErr(err, response), lines 21-28.  The result is the response and  *)
(* whether the call threw: err.toString() throws a TypeError on null and   *)
(* undefined, after statusCode has been assigned and before write.         *)
(***************************************************************************)
ErrText(err) == [t |-> "errtext", of |-> err]

handleErr(err, response) ==
  LET r1 == SetStatus(response, JsNum(500))
  IN IF HasToString(err)
     THEN [response |-> End(Write(r1, ErrText(err))), thrown |-> FALSE]
     ELSE [response |-> r1, thrown |-> TRUE]

(***************************************************************************)
(* The completion callback made by createCallback, lines 176-215, applied  *)
(* to a response.  The result is the response after the call, whether the  *)
(* call threw (reading lambdaResponse.statusCode of null is a TypeError),  *)
(* and the failure the call reported, "none" when it wrote the result.     *)
(***************************************************************************)
Message(m) == [t |-> "message", v |-> m]

UndefinedMsg == Message("lambda response was undefined. check your function code again.")
StatusCodeMsg == Message("Incorrect function response statusCode")
BodyMsg == Message("Incorrect function response body")

\* lambdaResponse.<field>: a property of a primitive or of an object that
\* lacks it is undefined.
Prop(lr, field) ==
  IF lr.t = "result" /\ field \in DOMAIN lr THEN lr[field] ELSE JsUndefined

ResultHeaders(lr) ==
  IF lr.t = "result" /\ "headers" \in DOMAIN lr THEN lr.headers ELSE NoHeaders

Payload(lr) ==
  IF Truthy(Prop(lr, "isBase64Encoded"))
  THEN [t |-> "buffer", v |-> Base64Decode(lr.body.v)]
  ELSE lr.body

Failed(cause, h) ==
  [response |-> h.response, thrown |-> h.thrown, failure |-> cause]

createCallback(response, err, lambdaResponse) ==
  IF Truthy(err)
  THEN Failed("error", handleErr(err, response))
  ELSE IF lambdaResponse.t = "undefined"
  THEN Failed("undefined", handleErr(UndefinedMsg, response))
  ELSE IF lambdaResponse.t = "null"
  THEN [response |-> response, thrown |-> TRUE, failure |-> "typeerror"]
  ELSE IF ~Truthy(ToNumber(Prop(lambdaResponse, "statusCode")))
  THEN Failed("statusCode", handleErr(StatusCodeMsg, response))
  ELSE IF ~IsString(Prop(lambdaResponse, "body"))
  THEN Failed("body", handleErr(BodyMsg, response))
  ELSE [response |->
          End(Write(SetHeaders(SetStatus(response, lambdaResponse.statusCode),
                               ResultHeaders(lambdaResponse)),
                    Payload(lambdaResponse))),
        thrown |-> FALSE, failure |-> "none"]

(***************************************************************************)
(* Values a handler may hand to the callback or settle its promise with.   *)
(* CbErrs and CbResults are the inputs of the callback checked on its own  *)
(* (SpecCb); RunErrs and RunResults are the representatives the invocation *)
(* state machine draws from.                                               *)
(***************************************************************************)
TextOk == <<111, 107>>             \* "ok"
TextB64 == <<98, 50, 115, 61>>     \* "b2s=", base64 of "ok"
SomeError == [t |-> "Error", v |-> "boom"]

StatusCodes ==
  {JsNum(200), JsNum(404), JsNum(0), JsNaN, JsStr(<<50, 48, 49>>),
   JsStr(<<111, 107>>), JsUndefined, JsNull}
Bodies == {JsStr(TextOk), JsStr(TextB64), JsStr(<<>>), JsUndefined, JsObj, JsNum(7)}
HeaderMaps == {NoHeaders, ("X-A" :> <<49>>), ("X-A" :> <<50>>) @@ ("x-b" :> <<>>)}

Results ==
  [t : {"result"}, statusCode : StatusCodes, body : Bodies,
   headers : HeaderMaps, isBase64Encoded : {[t |-> "boolean", v |-> TRUE], JsUndefined}]

CbErrs == {JsNull, JsUndefined, SomeError, Message("failed")}
CbResults == Results \cup {JsUndefined, JsNull, JsStr(TextOk), [t |-> "result"]}

OkResult ==
  [t |-> "result", statusCode |-> JsNum(200), body |-> JsStr(TextOk),
   headers |-> ("X-A" :> <<49>>)]

RunErrs == {JsNull, SomeError}
RunResults == {OkResult, JsNull}

(***************************************************************************)
(* The registry built by the startup scan (lines 58-79) and the files it   *)
(* names.  functions is a plain object literal: a key it does not own is   *)
(* looked up on Object.prototype.                                          *)
(***************************************************************************)
Names == {"f", "g"}
PathOf == [n \in Names |-> IF n = "f" THEN "/fns/f.js" ELSE "/fns/g/g.js"]
DirOf == [n \in Names |-> IF n = "f" THEN "/fns" ELSE "/fns/g"]
Paths == {PathOf[n] : n \in Names}

functions ==
  [n \in Names |-> [t |-> "entry", functionPath |-> PathOf[n], moduleDir |-> DirOf[n]]]

ObjectPrototypeKeys == {"constructor", "toString"}

\* functions[func], line 114.  A request with no path segment gives the
\* key undefined, which is the property name "undefined".
Lookup(func) ==
  IF func \in DOMAIN functions THEN functions[func]
  ELSE IF func \in ObjectPrototypeKeys THEN [t |-> "inherited"]
  ELSE JsUndefined

\* What a request's path can give as func (line 111-113).
Funcs == Names \cup ObjectPrototypeKeys \cup {"nosuch", "undefined"}

(***************************************************************************)
(* Files and loaded modules.  A file holds one version of a module; kind   *)
(* says what loading it does: it exports a function named handler, it      *)
(* exports none, its top level throws an Error, or throws null.            *)
(***************************************************************************)
LoadKinds == {"handler", "nohandler", "throws", "throwsNull"}
Missing == [ver |-> 0, kind |-> "missing"]
NoModule == [ver |-> 0, kind |-> "none"]
NoPath == "undefined"
OriginalPaths == <<"/app/node_modules">>

VARIABLES
  disk,          \* path -> the file's content, or Missing
  cache,         \* require.cache: path -> the loaded module, or NoModule
  pathCache,     \* paths require / require.resolve has resolved before
  modulePaths,   \* module.paths, the process-wide resolution root
  pending,       \* handler name -> watcher events not yet delivered
  delivered,     \* handler name -> an event was delivered since its last invocation
  edits,         \* filesystem changes made so far
  inv,           \* invocation -> its state
  cb,            \* the callback applied on its own: its arguments and result
  req,           \* the request translation applied on its own: a request and what it gives
  reg            \* the startup scan applied on its own: a directory and the registry

vars == <<disk, cache, pathCache, modulePaths, pending, delivered, edits, inv, cb, req, reg>>

Invs == 1..MaxInv

IdleInv ==
  [phase |-> "idle", func |-> "undefined", module |-> NoModule,
   response |-> NewResponse, callbackWasCalled |-> FALSE,
   returnedPromise |-> FALSE, promise |-> "none",
   syncCalls |-> 0, asyncCalls |-> 0, promiseCalls |-> 0,
   cbThrew |-> FALSE, escaped |-> {}, failure |-> "none"]

(***************************************************************************)
(* require.resolve(path) and require(path) of Node's module loader.  A     *)
(* path that resolved once stays resolved (the loader's path cache); a     *)
(* module whose top level throws is not left in require.cache.             *)
(***************************************************************************)
LoaderError(m) == [t |-> "Error", v |-> m]

Resolves(path, d, pc) == path # NoPath /\ (d[path].kind # "missing" \/ path \in pc)

Require(path, d, c, pc) ==
  IF path = NoPath
  THEN [thrown |-> TRUE, err |-> LoaderError("ERR_INVALID_ARG_TYPE"),
        module |-> NoModule, cache |-> c, pathCache |-> pc]
  ELSE IF ~Resolves(path, d, pc)
  THEN [thrown |-> TRUE, err |-> LoaderError("MODULE_NOT_FOUND"),
        module |-> NoModule, cache |-> c, pathCache |-> pc]
  ELSE IF c[path] # NoModule
  THEN [thrown |-> FALSE, err |-> JsUndefined,
        module |-> c[path], cache |-> c, pathCache |-> pc \cup {path}]
  ELSE IF d[path].kind = "missing"
  THEN [thrown |-> TRUE, err |-> LoaderError("ENOENT"),
        module |-> NoModule, cache |-> c, pathCache |-> pc \cup {path}]
  ELSE IF d[path].kind = "throws"
  THEN [thrown |-> TRUE, err |-> SomeError,
        module |-> NoModule, cache |-> c, pathCache |-> pc \cup {path}]
  ELSE IF d[path].kind = "throwsNull"
  THEN [thrown |-> TRUE, err |-> JsNull,
        module |-> NoModule, cache |-> c, pathCache |-> pc \cup {path}]
  ELSE [thrown |-> FALSE, err |-> JsUndefined, module |-> d[path],
        cache |-> [c EXCEPT ![path] = d[path]], pathCache |-> pc \cup {path}]

\* The load step deleting the cache entry before it requires the file.
LoadFresh(path, d, c, pc) ==
  LET r == Require(path, d, [p \in DOMAIN c |-> IF p = path THEN NoModule ELSE c[p]], pc)
  IN IF ~r.thrown /\ r.module.kind # "handler"
     THEN [r EXCEPT !.thrown = TRUE,
                    !.err = LoaderError("must export a function named handler"),
                    !.module = NoModule]
     ELSE r

\* The load step, lines 119-135: require, then the check of the export.
Load(path, d, c, pc) ==
  LET r == Require(path, d, c, pc)
  IN IF ~r.thrown /\ r.module.kind # "handler"
     THEN [r EXCEPT !.thrown = TRUE,
                    !.err = LoaderError("must export a function named handler"),
                    !.module = NoModule]
     ELSE r

(***************************************************************************)
(* What one run of a handler does before it returns: the callback calls it *)
(* makes (sync), and how it returns (ret): undefined, a value that is not  *)
(* a thenable, a promise, or by throwing.  A handler calls the callback    *)
(* with a result or with an error (RunArgs); a promise settles with any of *)
(* RunResults or RunErrs.                                                  *)
(***************************************************************************)
Args(e, r) == [err |-> e, res |-> r]
RunArgs == {Args(JsNull, OkResult), Args(SomeError, JsNull)}
SyncCalls == {<<>>} \cup {<<a>> : a \in RunArgs}
Returns == {"undefined", "value", "promise", "throw"}

FirstFailure(old, new) == IF old = "none" THEN new ELSE old

\* The callback called on invocation v with (a.err, a.res): lines 177-214,
\* with callbackWasCalled set on entry.
Called(v, a) ==
  LET c == createCallback(v.response, a.err, a.res)
  IN [v EXCEPT !.callbackWasCalled = TRUE,
               !.response = c.response,
               !.cbThrew = @ \/ c.thrown,
               !.failure = FirstFailure(@, c.failure)]

RECURSIVE CalledAll(_, _)
CalledAll(v, calls) ==
  IF calls = <<>> THEN v ELSE CalledAll(Called(v, Head(calls)), Tail(calls))

NotFoundText == [t |-> "text", v |-> "Function not found..."]

\* The dispatcher ending the response itself when the handler returned a
\* value that is no promise.
AfterReturnResponds(v, ret) ==
  IF v.callbackWasCalled /\ ret = "promise"
  THEN [v EXCEPT !.returnedPromise = TRUE,
                 !.escaped = @ \cup {"dual"},
                 !.failure = FirstFailure(@, "dual")]
  ELSE [v EXCEPT !.returnedPromise = (ret = "promise"),
                 !.promise = IF ret = "promise" THEN "pending" ELSE "none",
                 !.response = IF ret = "value" THEN End(@) ELSE @]

\* The guard of line 166 and promiseCallback (lines 219-233) after the
\* handler returned ret.
AfterReturn(v, ret) ==
  IF v.callbackWasCalled /\ ret = "promise"
  THEN [v EXCEPT !.returnedPromise = TRUE,
                 !.escaped = @ \cup {"dual"},
                 !.failure = FirstFailure(@, "dual")]
  ELSE [v EXCEPT !.returnedPromise = (ret = "promise"),
                 !.promise = IF ret = "promise" THEN "pending" ELSE "none"]

\* The handler called at line 160 and what follows to line 173.
Invoke(v, sync, ret) ==
  LET c == CalledAll([v EXCEPT !.syncCalls = Len(sync)], sync)
  IN IF ret = "throw"
     THEN [c EXCEPT !.escaped = @ \cup {"handler"}]
     ELSE AfterReturn(c, ret)

(***************************************************************************)
(* The dispatcher, lines 107-216: one request, run to the point where the  *)
(* function returns or throws.                                             *)
(***************************************************************************)
Dispatched(v, func, sync, ret, l) ==
  IF l.thrown
  THEN LET h == handleErr(l.err, v.response)
       IN [v EXCEPT !.phase = "loaderror", !.func = func,
                    !.response = h.response,
                    !.escaped = IF h.thrown THEN {"handleErr"} ELSE {},
                    !.failure = "load"]
  ELSE Invoke([v EXCEPT !.phase = "invoked", !.func = func,
                        !.module = l.module], sync, ret)

Dispatcher(i, func, sync, ret) ==
  /\ inv[i].phase = "idle"
  /\ \A j \in Invs : j < i => inv[j].phase # "idle"
  /\ LET e == Lookup(func)
     IN IF ~Truthy(e)
        THEN /\ inv' = [inv EXCEPT ![i] =
                   [@ EXCEPT !.phase = "notfound", !.func = func,
                             !.response =
                               End(Write(SetStatus(@, JsNum(404)), NotFoundText))]]
             /\ UNCHANGED <<cache, pathCache, delivered>>
        ELSE LET path == IF e.t = "entry" THEN e.functionPath ELSE NoPath
                 l == Load(path, disk, cache, pathCache)
             IN /\ cache' = l.cache
                /\ pathCache' = l.pathCache
                /\ inv' = [inv EXCEPT ![i] = Dispatched(@, func, sync, ret, l)]
                /\ delivered' = [n \in Names |-> delivered[n] /\ n # func]
  /\ UNCHANGED <<disk, modulePaths, pending, edits, cb, req, reg>>

(***************************************************************************)
(* Completions after the dispatcher returned.                              *)
(***************************************************************************)
\* The handler's deferred work calls the callback.
AsyncCallback(i, a) ==
  /\ inv[i].phase = "invoked"
  /\ inv[i].asyncCalls < MaxAsyncCalls
  /\ inv' = [inv EXCEPT ![i] = Called([@ EXCEPT !.asyncCalls = @ + 1], a)]
  /\ UNCHANGED <<disk, cache, pathCache, modulePaths, pending, delivered, edits, cb, req, reg>>

\* The two functions promiseCallback gave to promise.then, lines 224-232.
\* An exception of the callback rejects the promise then() returned, which
\* nothing handles.
Settled(v, a, rejected) ==
  LET c == Called([v EXCEPT !.promise = "settled", !.promiseCalls = @ + 1,
                            !.failure = IF rejected
                                        THEN FirstFailure(@, "rejected") ELSE @], a)
  IN [c EXCEPT !.escaped =
        IF createCallback(v.response, a.err, a.res).thrown
        THEN @ \cup {"unhandledRejection"} ELSE @]

PromiseFulfilled(i, data) ==
  /\ inv[i].promise = "pending"
  /\ inv' = [inv EXCEPT ![i] = Settled(@, Args(JsNull, data), FALSE)]
  /\ UNCHANGED <<disk, cache, pathCache, modulePaths, pending, delivered, edits, cb, req, reg>>

PromiseRejected(i, err) ==
  /\ inv[i].promise = "pending"
  /\ inv' = [inv EXCEPT ![i] = Settled(@, Args(err, JsNull), TRUE)]
  /\ UNCHANGED <<disk, cache, pathCache, modulePaths, pending, delivered, edits, cb, req, reg>>

(***************************************************************************)
(* The filesystem and the watcher, lines 81-105.                           *)
(***************************************************************************)
EventFor(old, new) ==
  IF old.kind = "missing" THEN "add"
  ELSE IF new.kind = "missing" THEN "unlink" ELSE "change"

EditFile(n, code) ==
  /\ edits < MaxEdits
  /\ code # disk[PathOf[n]]
  /\ code.kind = "missing" \/ code.ver = edits + 1
  /\ disk' = [disk EXCEPT ![PathOf[n]] = code]
  /\ pending' = [pending EXCEPT ![n] = Append(@, EventFor(disk[PathOf[n]], code))]
  /\ edits' = edits + 1
  /\ UNCHANGED <<cache, pathCache, modulePaths, delivered, inv, cb, req, reg>>

\* The package.json under moduleDir is watched as well (lines 95-97).
EditManifest(n) ==
  /\ edits < MaxEdits
  /\ pending' = [pending EXCEPT ![n] = Append(@, "change")]
  /\ edits' = edits + 1
  /\ UNCHANGED <<disk, cache, pathCache, modulePaths, delivered, inv, cb, req, reg>>

\* clearCache without the delete of line 91.
clearCacheKeeps(n, d, c, pc, mp) ==
  LET fn == functions[n]
  IN IF Resolves(fn.functionPath, d, pc)
     THEN [cache |-> c, pathCache |-> pc \cup {fn.functionPath},
           modulePaths |-> mp, thrown |-> FALSE]
     ELSE [cache |-> c, pathCache |-> pc,
           modulePaths |-> <<fn.moduleDir>>, thrown |-> TRUE]

\* clearCache emptying require.cache instead of deleting the one entry.
clearCacheAll(n, d, c, pc, mp) ==
  LET fn == functions[n]
  IN IF Resolves(fn.functionPath, d, pc)
     THEN [cache |-> [p \in DOMAIN c |-> NoModule],
           pathCache |-> pc \cup {fn.functionPath},
           modulePaths |-> mp, thrown |-> FALSE]
     ELSE [cache |-> c, pathCache |-> pc,
           modulePaths |-> <<fn.moduleDir>>, thrown |-> TRUE]

\* clearCache(action)(), lines 83-93, for the handler named n.  When
\* require.resolve throws, the statements after it do not run.
clearCache(n, d, c, pc, mp) ==
  LET fn == functions[n]
      before == mp
  IN IF Resolves(fn.functionPath, d, pc)
     THEN [cache |-> [c EXCEPT ![fn.functionPath] = NoModule],
           pathCache |-> pc \cup {fn.functionPath},
           modulePaths |-> before, thrown |-> FALSE]
     ELSE [cache |-> c, pathCache |-> pc,
           modulePaths |-> <<fn.moduleDir>>, thrown |-> TRUE]

\* A watcher callback that also takes the module away from the running
\* invocations of its handler.
WatcherEventUnloads(n) ==
  /\ pending[n] # <<>>
  /\ LET r == clearCache(n, disk, cache, pathCache, modulePaths)
     IN /\ cache' = r.cache
        /\ pathCache' = r.pathCache
        /\ modulePaths' = r.modulePaths
  /\ pending' = [pending EXCEPT ![n] = Tail(@)]
  /\ delivered' = [delivered EXCEPT ![n] = TRUE]
  /\ inv' = [i \in Invs |->
              IF inv[i].func = n /\ inv[i].phase = "invoked"
              THEN [inv[i] EXCEPT !.module = NoModule] ELSE inv[i]]
  /\ UNCHANGED <<disk, edits, cb, req, reg>>

WatcherEvent(n) ==
  /\ pending[n] # <<>>
  /\ LET r == clearCache(n, disk, cache, pathCache, modulePaths)
     IN /\ cache' = r.cache
        /\ pathCache' = r.pathCache
        /\ modulePaths' = r.modulePaths
  /\ pending' = [pending EXCEPT ![n] = Tail(@)]
  /\ delivered' = [delivered EXCEPT ![n] = TRUE]
  /\ UNCHANGED <<disk, edits, inv, cb, req, reg>>

(***************************************************************************)
(* Strings the request translation inspects, as character codes.           *)
(***************************************************************************)
MaxBody == 3         \* bytes of a binary request body

Slash == 47
Space == 32
Dot == 46
Bearer == <<66, 101, 97, 114, 101, 114>>
Basic == <<66, 97, 115, 105, 99>>
NetlifyFunctions ==
  <<110, 101, 116, 108, 105, 102, 121, 47, 102, 117, 110, 99, 116, 105, 111, 110, 115>>
LineTerminators == {10, 13, 8232, 8233}

\* The property name a path segment spells.
KeyText ==
  [k \in Names \cup ObjectPrototypeKeys |->
     CASE k = "f" -> <<102>>
       [] k = "g" -> <<103>>
       [] k = "constructor" -> <<99, 111, 110, 115, 116, 114, 117, 99, 116, 111, 114>>
       [] k = "toString" -> <<116, 111, 83, 116, 114, 105, 110, 103>>]

Key(segment) ==
  IF segment.t = "undefined" THEN "undefined"
  ELSE IF \E k \in DOMAIN KeyText : KeyText[k] = segment.v
  THEN CHOOSE k \in DOMAIN KeyText : KeyText[k] = segment.v
  ELSE "nosuch"

\* s.split(sep) for a one-character separator.
RECURSIVE Split(_, _)
Split(s, sep) ==
  IF \A k \in 1..Len(s) : s[k] # sep THEN <<s>>
  ELSE LET k == CHOOSE j \in 1..Len(s) :
                  s[j] = sep /\ \A h \in 1..(j - 1) : s[h] # sep
       IN <<SubSeq(s, 1, k - 1)>> \o Split(SubSeq(s, k + 1, Len(s)), sep)

(***************************************************************************)
(* The path of the request, lines 109-113.                                 *)
(***************************************************************************)
\* The regular expression /^\/.netlify\/functions/: a slash, any one
\* character that is no line terminator, then "netlify/functions".
MatchesPrefix(path) ==
  /\ Len(path) >= Len(NetlifyFunctions) + 2
  /\ path[1] = Slash
  /\ path[2] \notin LineTerminators
  /\ SubSeq(path, 3, Len(NetlifyFunctions) + 2) = NetlifyFunctions

\* request.path.replace(/^\/.netlify\/functions/, ""), line 109.
CleanPath(path) ==
  IF MatchesPrefix(path)
  THEN SubSeq(path, Len(NetlifyFunctions) + 3, Len(path))
  ELSE path

\* cleanPath.split("/").filter(e => e)[0], lines 111-113.
FuncOf(path) ==
  LET segments == SelectSeq(Split(CleanPath(path), Slash), LAMBDA e : e # <<>>)
  IN IF segments = <<>> THEN JsUndefined ELSE JsStr(segments[1])

(***************************************************************************)
(* The body of the request, lines 137-147.  request.body is a Buffer (the  *)
(* raw parser), a string (the text parser), or what the parsers left: an   *)
(* empty object, or nothing.                                               *)
(***************************************************************************)
JsBuffer(bytes) == [t |-> "buffer", v |-> bytes]

B64Char(i) ==
  IF i < 26 THEN i + 65
  ELSE IF i < 52 THEN i + 71
  ELSE IF i < 62 THEN i - 4
  ELSE IF i = 62 THEN 43 ELSE 47

\* buffer.toString("base64")
RECURSIVE Base64Encode(_)
Base64Encode(b) ==
  IF b = <<>> THEN <<>>
  ELSE IF Len(b) = 1
  THEN <<B64Char(b[1] \div 4), B64Char((b[1] % 4) * 16), 61, 61>>
  ELSE IF Len(b) = 2
  THEN <<B64Char(b[1] \div 4), B64Char((b[1] % 4) * 16 + (b[2] \div 16)),
         B64Char((b[2] % 16) * 4), 61>>
  ELSE <<B64Char(b[1] \div 4), B64Char((b[1] % 4) * 16 + (b[2] \div 16)),
         B64Char((b[2] % 16) * 4 + (b[3] \div 64)), B64Char(b[3] % 64)>>
       \o Base64Encode(SubSeq(b, 4, Len(b)))

\* The body translation with the flag of line 141 left out.
TranslateBodyNoFlag(body) ==
  IF body.t = "buffer"
  THEN [body |-> JsStr(Base64Encode(body.v)), isBase64Encoded |-> FALSE]
  ELSE IF IsString(body)
  THEN [body |-> body, isBase64Encoded |-> FALSE]
  ELSE [body |-> JsStr(<<>>), isBase64Encoded |-> FALSE]

TranslateBody(body) ==
  IF body.t = "buffer"
  THEN [body |-> JsStr(Base64Encode(body.v)), isBase64Encoded |-> TRUE]
  ELSE IF IsString(body)
  THEN [body |-> body, isBase64Encoded |-> FALSE]
  ELSE [body |-> JsStr(<<>>), isBase64Encoded |-> FALSE]

(***************************************************************************)
(* buildClientContext(headers), lines 37-55, and jwtDecode as the code     *)
(* uses it: the second dot-separated part of the token is decoded from     *)
(* base64url and parsed as JSON; any failure throws.                       *)
(***************************************************************************)
Thrown == [thrown |-> TRUE, value |-> JsUndefined]
Returned(x) == [thrown |-> FALSE, value |-> x]

\* JSON.parse for the texts the model draws: an empty object, null, or an
\* integer; any other text is a SyntaxError.
JsonParse(text) ==
  IF text = <<123, 125>> THEN Returned(JsObj)
  ELSE IF text = <<110, 117, 108, 108>> THEN Returned(JsNull)
  ELSE IF /\ text # <<>>
          /\ \A k \in 1..Len(text) : IsDigit(text[k])
          /\ (Len(text) = 1 \/ text[1] # 48)
  THEN Returned(JsNum(DigitsValue(text)))
  ELSE Thrown

UrlToB64(s) ==
  [k \in 1..Len(s) |-> IF s[k] = 45 THEN 43 ELSE IF s[k] = 95 THEN 47 ELSE s[k]]

jwtDecode(token) ==
  LET parts == Split(token, Dot)
  IN IF Len(parts) < 2 THEN Thrown
     ELSE IF Len(parts[2]) % 4 = 1 THEN Thrown
     ELSE JsonParse(Base64Decode(UrlToB64(parts[2])))

Identity ==
  [url |-> "NETLIFY_LAMBDA_LOCALLY_EMULATED_IDENTITY_URL",
   token |-> "NETLIFY_LAMBDA_LOCALLY_EMULATED_IDENTITY_TOKEN"]

ClientContext(user) == [t |-> "clientContext", identity |-> Identity, user |-> user]

\* buildClientContext without the try / catch of lines 44-54.
buildClientContextNoCatch(headers) ==
  IF ~Truthy(headers.authorization) THEN Returned(JsUndefined)
  ELSE LET parts == Split(headers.authorization.v, Space)
       IN IF Len(parts) # 2 \/ parts[1] # Bearer THEN Returned(JsUndefined)
          ELSE LET d == jwtDecode(parts[2])
               IN IF d.thrown THEN Thrown
                  ELSE Returned(ClientContext(d.value))

buildClientContext(headers) ==
  IF ~Truthy(headers.authorization) THEN Returned(JsUndefined)
  ELSE LET parts == Split(headers.authorization.v, Space)
       IN IF Len(parts) # 2 \/ parts[1] # Bearer THEN Returned(JsUndefined)
          ELSE LET d == jwtDecode(parts[2])
               IN IF d.thrown THEN Returned(JsUndefined)
                  ELSE Returned(ClientContext(d.value))

\* x || {}
OrEmptyObject(x) == IF Truthy(x) THEN x ELSE JsObj

(***************************************************************************)
(* The dispatcher from the request to the call of the handler, lines       *)
(* 109-164, for a request whose handler module loads: the name looked up,  *)
(* and the request and context objects the handler is called with.         *)
(***************************************************************************)
NoOut ==
  [func |-> JsUndefined, entry |-> JsUndefined, invoked |-> FALSE, thrown |-> FALSE,
   lambdaRequest |-> JsUndefined, context |-> JsUndefined]

Translated(r) ==
  LET func == FuncOf(r.path)
      e == Lookup(Key(func))
      b == TranslateBody(r.body)
      c == buildClientContext(r.headers)
  IN IF ~Truthy(e) \/ e.t # "entry"
     THEN [NoOut EXCEPT !.func = func, !.entry = e]
     ELSE IF c.thrown
     THEN [NoOut EXCEPT !.func = func, !.entry = e, !.thrown = TRUE]
     ELSE [func |-> func, entry |-> e, invoked |-> TRUE, thrown |-> FALSE,
           lambdaRequest |->
             [path |-> r.path, headers |-> r.headers,
              body |-> b.body, isBase64Encoded |-> b.isBase64Encoded],
           context |-> [clientContext |-> OrEmptyObject(c.value)]]

NoReq ==
  [path |-> <<Slash>>, headers |-> [authorization |-> JsUndefined],
   body |-> JsUndefined, done |-> FALSE, out |-> NoOut]

(***************************************************************************)
(* The startup scan, lines 58-79.  A child of the scanned directory has a  *)
(* name, is a file or a directory, and findHandler finds an entry point    *)
(* for it or does not.  Names are character codes.                         *)
(***************************************************************************)
MaxChildren == 2     \* children of the scanned directory

NodeModules == <<110, 111, 100, 101, 95, 109, 111, 100, 117, 108, 101, 115>>
JsExt == <<46, 106, 115>>

\* path.extname(name): from the last dot to the end; none when there is no
\* dot or the only dot is the first character.
ExtName(name) ==
  IF \A k \in 2..Len(name) : name[k] # Dot THEN <<>>
  ELSE LET k == CHOOSE j \in 2..Len(name) :
                  name[j] = Dot /\ \A h \in (j + 1)..Len(name) : name[h] # Dot
       IN SubSeq(name, k, Len(name))

\* file.replace(/\.js$/, "")
StripJs(name) ==
  IF Len(name) >= Len(JsExt) /\ SubSeq(name, Len(name) - Len(JsExt) + 1, Len(name)) = JsExt
  THEN SubSeq(name, 1, Len(name) - Len(JsExt))
  ELSE name

\* path.resolve(path.join(dir, file)), line 63.
FunctionPath(dir, file) == [t |-> "path", dir |-> dir, file |-> file]

\* What findHandler(functionPath) returns at line 64: the file itself, the
\* entry point found in a directory, or undefined.
HandlerPath(functionPath, child) ==
  IF ~child.found THEN JsUndefined
  ELSE IF child.kind = "file" THEN functionPath
  ELSE [t |-> "path", dir |-> functionPath, file |-> "entry point"]

\* What findModuleDir(functionPath) returns at lines 71 and 76.
ModuleDir(functionPath) == [t |-> "moduleDir", of |-> functionPath]

Put(fns, key, entry) ==
  [k \in DOMAIN fns \cup {key} |-> IF k = key THEN entry ELSE fns[k]]

\* The body of the forEach of line 59 for one child.
ScanChild(fns, dir, child) ==
  IF dir = NodeModules THEN fns
  ELSE LET functionPath == FunctionPath(dir, child.name)
           handlerPath == HandlerPath(functionPath, child)
       IN IF ~Truthy(handlerPath) THEN fns
          ELSE IF ExtName(child.name) = JsExt
          THEN Put(fns, StripJs(child.name),
                   [functionPath |-> functionPath, moduleDir |-> ModuleDir(functionPath)])
          ELSE IF child.kind = "directory"
          THEN Put(fns, child.name,
                   [functionPath |-> handlerPath, moduleDir |-> ModuleDir(functionPath)])
          ELSE fns

RECURSIVE Scan(_, _, _)
Scan(fns, dir, children) ==
  IF children = <<>> THEN fns
  ELSE Scan(ScanChild(fns, dir, Head(children)), dir, Tail(children))

EmptyRegistry == [k \in {} |-> JsUndefined]

NoReg == [dir |-> <<>>, children |-> <<>>, done |-> FALSE, functions |-> EmptyRegistry]

(***************************************************************************)
(* The specification of the server.                                        *)
(***************************************************************************)
NoCb == [err |-> JsNull, res |-> JsNull, on |-> NewResponse, done |-> FALSE,
         out |-> [response |-> NewResponse, thrown |-> FALSE, failure |-> "none"]]

Init ==
  /\ disk = [p \in Paths |-> [ver |-> 0, kind |-> "handler"]]
  /\ cache = [p \in Paths |-> NoModule]
  /\ pathCache = {}
  /\ modulePaths = OriginalPaths
  /\ pending = [n \in Names |-> <<"add">>]
  /\ delivered = [n \in Names |-> FALSE]
  /\ edits = 0
  /\ inv = [i \in Invs |-> IdleInv]
  /\ cb = NoCb
  /\ req = NoReq
  /\ reg = NoReg

Codes == {Missing} \cup [ver : 1..MaxEdits, kind : LoadKinds]

Next ==
  \/ \E i \in Invs, func \in Funcs, sync \in SyncCalls, ret \in Returns :
       Dispatcher(i, func, sync, ret)
  \/ \E i \in Invs, a \in RunArgs : AsyncCallback(i, a)
  \/ \E i \in Invs, data \in RunResults : PromiseFulfilled(i, data)
  \/ \E i \in Invs, err \in RunErrs : PromiseRejected(i, err)
  \/ \E n \in Names, code \in Codes : EditFile(n, code)
  \/ \E n \in Names : EditManifest(n)
  \/ \E n \in Names : WatcherEvent(n)

Spec == Init /\ [][Next]_vars

\* The server with the scheduling the watcher gives: an event that is
\* pending is delivered.  Nothing obliges a handler to call the callback
\* or a promise to settle.
SpecFair == Spec /\ \A n \in Names : WF_vars(WatcherEvent(n))

(***************************************************************************)
(* The callback on its own: its arguments are drawn from CbErrs and        *)
(* CbResults, and it is applied to a new response.                         *)
(***************************************************************************)
InitCb ==
  /\ disk = [p \in Paths |-> [ver |-> 0, kind |-> "handler"]]
  /\ cache = [p \in Paths |-> NoModule]
  /\ pathCache = {}
  /\ modulePaths = OriginalPaths
  /\ pending = [n \in Names |-> <<>>]
  /\ delivered = [n \in Names |-> FALSE]
  /\ edits = 0
  /\ inv = [i \in Invs |-> IdleInv]
  /\ cb \in [err : CbErrs, res : CbResults, on : {NewResponse},
             done : {FALSE}, out : {NoCb.out}]
  /\ req = NoReq
  /\ reg = NoReg

CallbackStep ==
  /\ ~cb.done
  /\ cb' = [cb EXCEPT !.done = TRUE, !.out = createCallback(cb.on, cb.err, cb.res)]
  /\ UNCHANGED <<disk, cache, pathCache, modulePaths, pending, delivered, edits, inv, req, reg>>

NextCb == CallbackStep

SpecCb == InitCb /\ [][NextCb]_vars

(***************************************************************************)
(* The request translation on its own: a request drawn from the paths,     *)
(* Authorization headers and bodies below.                                 *)
(***************************************************************************)
BodyBytes == {0, 107, 255}
ByteSeqs == UNION {[1..n -> BodyBytes] : n \in 0..MaxBody}
ReqBodies ==
  {JsBuffer(b) : b \in ByteSeqs}
    \cup {JsStr(TextOk), JsStr(TextB64), JsStr(<<>>), JsUndefined, JsObj}

Tokens ==
  {<<120, 46, 101, 51, 48, 46, 115>>,                 \* x.e30.s     {}
   <<120, 46, 77, 81, 46, 115>>,                      \* x.MQ.s      1
   <<120, 46, 98, 110, 86, 115, 98, 65, 46, 115>>,    \* x.bnVsbA.s  null
   <<120, 46, 98, 50, 115, 46, 115>>,                 \* x.b2s.s     ok
   <<120, 46, 101, 46, 115>>,                         \* x.e.s
   <<101, 51, 48>>,                                   \* e30
   <<>>}
Authorizations ==
  {JsUndefined, JsStr(<<>>)}
    \cup {JsStr(scheme \o sep \o token \o trail) :
            scheme \in {Bearer, Basic}, sep \in {<<Space>>, <<Space, Space>>},
            token \in Tokens, trail \in {<<>>, <<Space>>}}

PathHeads ==
  {<<>>,
   <<Slash, Dot>> \o NetlifyFunctions,               \* /.netlify/functions
   <<Slash, 120>> \o NetlifyFunctions,               \* /xnetlify/functions
   <<Slash, Dot>> \o SubSeq(NetlifyFunctions, 1, Len(NetlifyFunctions) - 1)}
PathTails ==
  {<<>>, <<Slash>>, <<Slash, 102>>, <<Slash, 103>>, <<Slash, 102, Slash, 116>>,
   <<Slash, Slash, 103, Slash>>, <<102>>, <<Slash, 104>>}
RequestPaths ==
  {p \in {h \o t : h \in PathHeads, t \in PathTails} : p # <<>> /\ p[1] = Slash}

InitReq ==
  /\ disk = [p \in Paths |-> [ver |-> 0, kind |-> "handler"]]
  /\ cache = [p \in Paths |-> NoModule]
  /\ pathCache = {}
  /\ modulePaths = OriginalPaths
  /\ pending = [n \in Names |-> <<>>]
  /\ delivered = [n \in Names |-> FALSE]
  /\ edits = 0
  /\ inv = [i \in Invs |-> IdleInv]
  /\ cb = NoCb
  /\ req \in [path : RequestPaths, headers : [authorization : Authorizations],
              body : ReqBodies, done : {FALSE}, out : {NoOut}]
  /\ reg = NoReg

TranslateStep ==
  /\ ~req.done
  /\ req' = [req EXCEPT !.done = TRUE, !.out = Translated(req)]
  /\ UNCHANGED <<disk, cache, pathCache, modulePaths, pending, delivered, edits, inv, cb, reg>>

NextReq == TranslateStep

SpecReq == InitReq /\ [][NextReq]_vars

(***************************************************************************)
(* The startup scan on its own: a directory with up to MaxChildren         *)
(* children of different names, in the order readdirSync lists them.       *)
(***************************************************************************)
ScanDirs == {<<102, 110, 115>>, NodeModules}
ChildNames ==
  {<<97, 46, 106, 115>>,      \* a.js
   <<97>>,                   \* a
   <<98>>,                   \* b
   <<98, 46, 109, 100>>,     \* b.md
   <<46, 106, 115>>,          \* .js
   NodeModules}
Children ==
  [name : ChildNames, kind : {"file"}, found : {TRUE}]
    \cup [name : ChildNames, kind : {"directory"}, found : BOOLEAN]
ChildLists ==
  {l \in UNION {[1..n -> Children] : n \in 0..MaxChildren} :
     \A j, k \in 1..Len(l) : j # k => l[j].name # l[k].name}

InitScan ==
  /\ disk = [p \in Paths |-> [ver |-> 0, kind |-> "handler"]]
  /\ cache = [p \in Paths |-> NoModule]
  /\ pathCache = {}
  /\ modulePaths = OriginalPaths
  /\ pending = [n \in Names |-> <<>>]
  /\ delivered = [n \in Names |-> FALSE]
  /\ edits = 0
  /\ inv = [i \in Invs |-> IdleInv]
  /\ cb = NoCb
  /\ req = NoReq
  /\ reg \in [dir : ScanDirs, children : ChildLists, done : {FALSE},
              functions : {EmptyRegistry}]

ScanStep ==
  /\ ~reg.done
  /\ reg' = [reg EXCEPT !.done = TRUE,
                        !.functions = Scan(EmptyRegistry, reg.dir, reg.children)]
  /\ UNCHANGED <<disk, cache, pathCache, modulePaths, pending, delivered, edits, inv, cb, req>>

NextScan == ScanStep

SpecScan == InitScan /\ [][NextScan]_vars

(***************************************************************************)
(* Claims.                                                                 *)
(***************************************************************************)
Started(i) == inv[i].phase # "idle"
OneResponse(r) == r.ended /\ Len(r.chunks) = 1 /\ ~r.afterEnd
HandlerCalls(i) == inv[i].syncCalls + inv[i].asyncCalls

\* C1: whatever way a handler completes, nothing is written, assigned or
\* ended on a response that has already been ended, and at most one body
\* is written.
C1_ExactlyOnce ==
  \A i \in Invs :
    inv[i].phase = "invoked" =>
      ~inv[i].response.afterEnd /\ Len(inv[i].response.chunks) <= 1

\* C2: a request whose handler name the scan did not register is answered
\* 404 "Function not found..." and nothing is loaded or invoked.
C2_UnknownNameIs404 ==
  \A i \in Invs :
    Started(i) /\ inv[i].func \notin Names =>
      /\ inv[i].phase = "notfound"
      /\ inv[i].response.statusCode = JsNum(404)
      /\ inv[i].response.chunks = <<NotFoundText>>
      /\ inv[i].response.ended

\* What an invocation runs when it loads the file as it is on disk.
FromDisk(code) == IF code.kind = "handler" THEN code ELSE NoModule

\* C3: the first invocation of a handler after a watcher event for it was
\* delivered runs the module that is on disk at that moment (or fails to
\* load it), and leaves no older module in the cache.
C3_FreshAfterEvent ==
  [][\A i \in Invs, n \in Names :
       (inv[i].phase = "idle" /\ inv'[i].phase # "idle" /\ inv'[i].func = n
        /\ delivered[n]) =>
         /\ inv'[i].module = FromDisk(disk[PathOf[n]])
         /\ cache'[PathOf[n]] \in {NoModule, disk[PathOf[n]]}]_vars

\* C3 witness: an invocation ran version 1 of a handler that an earlier
\* invocation had loaded and cached as version 0.
C3_Witness ==
  \E i, j \in Invs :
    /\ j < i
    /\ inv[j].phase = "invoked" /\ inv[i].phase = "invoked"
    /\ inv[j].func = inv[i].func
    /\ inv[j].module.ver = 0 /\ inv[i].module.ver = 1

ValidNumber(x) == x.t = "number"

\* C4: a result with a number as statusCode and a string as body, passed
\* with no error, is sent as it is: that status, those headers, that body
\* (decoded when isBase64Encoded), and not a 500.
C4_ValidResultSentVerbatim ==
  (/\ cb.done
   /\ ~Truthy(cb.err)
   /\ cb.res.t = "result"
   /\ ValidNumber(Prop(cb.res, "statusCode"))
   /\ IsString(Prop(cb.res, "body"))) =>
     /\ cb.out.failure = "none"
     /\ ~cb.out.thrown
     /\ cb.out.response.statusCode = cb.res.statusCode
     /\ cb.out.response.headers = ResultHeaders(cb.res)
     /\ cb.out.response.chunks = <<Payload(cb.res)>>
     /\ OneResponse(cb.out.response)

NoNumber(x) == ToNumber(x).t = "nan"

Defective(res) ==
  \/ res.t = "null"
  \/ res.t = "result" /\ NoNumber(Prop(res, "statusCode"))
  \/ res.t = "result" /\ ~IsString(Prop(res, "body"))

DiagnosticFor(res) ==
  IF NoNumber(Prop(res, "statusCode")) THEN StatusCodeMsg ELSE BodyMsg

\* C5: a result with no statusCode, or one that is no number, or with a
\* body that is no string (a null result included) ends in one 500 with
\* the diagnostic of that defect, and the callback does not throw.
C5_DefectiveResultIs500 ==
  (cb.done /\ ~Truthy(cb.err) /\ Defective(cb.res)) =>
     /\ ~cb.out.thrown
     /\ cb.out.response.statusCode = JsNum(500)
     /\ cb.out.response.chunks = <<ErrText(DiagnosticFor(cb.res))>>
     /\ OneResponse(cb.out.response)

\* C6: a handler that returned a promise and did not call the callback
\* itself has, once the promise settled, had the callback run once and
\* exactly one response written.
C6_PromiseCompletesOnce ==
  \A i \in Invs :
    (inv[i].returnedPromise /\ HandlerCalls(i) = 0 /\ inv[i].promise = "settled") =>
      /\ inv[i].promiseCalls = 1
      /\ OneResponse(inv[i].response)

\* C7: a handler that called the callback and returned a promise fails
\* with the dual-completion error once both have fired.
C7_DualUseFails ==
  \A i \in Invs :
    (/\ inv[i].returnedPromise
     /\ \/ inv[i].syncCalls > 0
        \/ inv[i].asyncCalls > 0 /\ inv[i].promise = "settled") =>
      "dual" \in inv[i].escaped

\* C8: an invocation that failed has exactly one response, a 500 with a
\* diagnostic body.
C8_FailedIsOne500 ==
  \A i \in Invs :
    inv[i].failure # "none" =>
      /\ inv[i].response.statusCode = JsNum(500)
      /\ OneResponse(inv[i].response)
      /\ inv[i].response.chunks[1].t = "errtext"

\* C9: a registered handler whose module fails to load, or exports no
\* function named handler, gets a 500 from the error path, nothing is
\* thrown out of the dispatcher, and the handler is not invoked.
C9_LoadErrorIs500 ==
  \A i \in Invs :
    (inv[i].phase = "loaderror" /\ inv[i].func \in Names) =>
      /\ inv[i].response.statusCode = JsNum(500)
      /\ OneResponse(inv[i].response)
      /\ inv[i].escaped = {}
      /\ ~inv[i].callbackWasCalled /\ inv[i].promise = "none"

\* C10: no condition of an invocation lets an exception leave the
\* dispatcher function or an asynchronous completion path.
C10_NothingEscapes ==
  \A i \in Invs : inv[i].escaped = {}

IsBase64Text(s) == \A k \in 1..Len(s) : B64Index(s[k]) >= 0 \/ s[k] = 61

\* C11: the handler's request has, for a binary body, isBase64Encoded true
\* and as body the base64 text of the bytes (four characters for every
\* three bytes begun), which decodes to the bytes; for a text body, that
\* text and false; for any other body, the empty string and false.
C11_BodyTranslation ==
  (req.done /\ req.out.invoked) =>
    LET b == req.body
        lr == req.out.lambdaRequest
    IN IF b.t = "buffer"
       THEN /\ lr.isBase64Encoded
            /\ IsString(lr.body) /\ IsBase64Text(lr.body.v)
            /\ Len(lr.body.v) = 4 * ((Len(b.v) + 2) \div 3)
            /\ Base64Decode(lr.body.v) = b.v
       ELSE IF b.t = "string"
       THEN lr.body = b /\ ~lr.isBase64Encoded
       ELSE lr.body = JsStr(<<>>) /\ ~lr.isBase64Encoded

\* C11 witness: a handler was called for a binary body of two bytes, whose
\* base64 text ends in padding.
C11_Witness ==
  /\ req.done /\ req.out.invoked
  /\ req.body.t = "buffer" /\ Len(req.body.v) = 2
  /\ req.out.lambdaRequest.isBase64Encoded

\* "Bearer <token>": two parts separated by one space, the first Bearer.
BearerToken(a) ==
  /\ a.t = "string"
  /\ Len(a.v) >= Len(Bearer) + 1
  /\ SubSeq(a.v, 1, Len(Bearer)) = Bearer
  /\ a.v[Len(Bearer) + 1] = Space
  /\ \A k \in (Len(Bearer) + 2)..Len(a.v) : a.v[k] # Space

TokenOf(a) == SubSeq(a.v, Len(Bearer) + 2, Len(a.v))

\* C12: a request for a registered handler calls the handler and nothing
\* is thrown, whatever the Authorization header; clientContext has the
\* decoded claims as user and the two placeholders as identity when the
\* header is "Bearer <token>" and the token decodes, and is empty otherwise.
C12_ClientContext ==
  (req.done /\ req.out.entry.t = "entry") =>
    LET a == req.headers.authorization
    IN /\ ~req.out.thrown
       /\ req.out.invoked
       /\ req.out.context.clientContext =
            IF BearerToken(a) /\ ~jwtDecode(TokenOf(a)).thrown
            THEN [t |-> "clientContext", identity |-> Identity,
                  user |-> jwtDecode(TokenOf(a)).value]
            ELSE JsObj

\* C12 witness: a handler was called with an empty clientContext for a
\* Bearer header whose token does not decode.
C12_Witness ==
  /\ req.done /\ req.out.invoked
  /\ BearerToken(req.headers.authorization)
  /\ jwtDecode(TokenOf(req.headers.authorization)).thrown
  /\ req.out.context.clientContext = JsObj

FunctionsPrefix == <<Slash, Dot>> \o NetlifyFunctions

\* The path starts with the two segments /.netlify/functions: the prefix,
\* then a slash or the end of the path.
UnderPrefix(path) ==
  /\ Len(path) >= Len(FunctionsPrefix)
  /\ SubSeq(path, 1, Len(FunctionsPrefix)) = FunctionsPrefix
  /\ (Len(path) = Len(FunctionsPrefix) \/ path[Len(FunctionsPrefix) + 1] = Slash)

FirstSegment(path) ==
  LET segments == SelectSeq(Split(path, Slash), LAMBDA e : e # <<>>)
  IN IF segments = <<>> THEN JsUndefined ELSE JsStr(segments[1])

\* C13: the handler name is the first non-empty segment of the path after
\* the prefix /.netlify/functions is taken off, and nothing is taken off a
\* path that does not start with that pair of segments; so /.netlify/
\* functions/n/tail and /n/tail give the same entry, and the entry a
\* request gets is the one registered under that segment.
C13_NameAfterPrefix ==
  req.done =>
    LET rest == IF UnderPrefix(req.path)
                THEN SubSeq(req.path, Len(FunctionsPrefix) + 1, Len(req.path))
                ELSE req.path
    IN req.out.entry = Lookup(Key(FirstSegment(rest)))

\* C14: between any two steps of the server (a dispatcher call that
\* returned or threw, a watcher callback that returned or threw) module.paths
\* is what it was before the first swap.
C14_RootRestored == modulePaths = OriginalPaths

\* A watcher callback of handler n ran in this step.
Evicting(n) == pending[n] # <<>> /\ pending'[n] = Tail(pending[n])

\* C15: a watcher callback of a handler, for add, change or unlink, leaves
\* no module cached under that handler's functionPath (whether one was
\* cached or not, whether the file still exists or not) and leaves every
\* other handler's cache entry as it was.
C15_EvictsOnlyItsEntry ==
  [][\A n \in Names :
       Evicting(n) =>
         /\ cache'[PathOf[n]] = NoModule
         /\ \A m \in Names \ {n} : cache'[PathOf[m]] = cache[PathOf[m]]]_vars

\* C15 witness: a handler was invoked and its module cached, its file was
\* then deleted, and after the unlink event the entry is gone while the
\* other handler's module is still cached.
C15_Witness ==
  \E n \in Names, i \in Invs :
    /\ inv[i].phase = "invoked" /\ inv[i].func = n
    /\ disk[PathOf[n]] = Missing
    /\ pending[n] = <<>> /\ delivered[n]
    /\ cache[PathOf[n]] = NoModule
    /\ \E m \in Names \ {n} : cache[PathOf[m]] # NoModule

\* The handler of invocation i returned, has not called the callback, and
\* no promise of it has settled.
Hung(i) ==
  /\ inv[i].phase = "invoked"
  /\ inv[i].escaped = {}
  /\ HandlerCalls(i) = 0
  /\ inv[i].promiseCalls = 0

\* C16: as long as the handler of an invocation has returned without
\* calling the callback (returning nothing, a value that is no promise, or
\* a promise that has not settled), nothing is written to its response and
\* the response is not ended, whatever else the server does meanwhile.
C16_HungStaysOpen ==
  \A i \in Invs : Hung(i) => inv[i].response = NewResponse

\* C16 witness: the first request hangs with no promise to wait for, and a
\* request started after it has been answered with the handler's result.
C16_Witness ==
  \E i, j \in Invs :
    /\ i < j
    /\ Hung(i) /\ inv[i].promise = "none" /\ inv[i].response = NewResponse
    /\ inv[j].phase = "invoked" /\ inv[j].failure = "none"
    /\ OneResponse(inv[j].response)
    /\ inv[j].response.statusCode = OkResult.statusCode

\* The key a child is registered under: a name ending in .js without that
\* ending, any other name as it is.
RegistryKey(child) ==
  IF
    /\ Len(child.name) > Len(JsExt)
    /\ SubSeq(child.name, Len(child.name) - Len(JsExt) + 1, Len(child.name)) = JsExt
  THEN SubSeq(child.name, 1, Len(child.name) - Len(JsExt))
  ELSE child.name

\* No other child of the directory is registered under the same key.
OnlyOne(child) ==
  \A k \in 1..Len(reg.children) :
    reg.children[k] # child => RegistryKey(reg.children[k]) # RegistryKey(child)

IsJsFile(child) == child.kind = "file" /\ RegistryKey(child) # child.name

\* C17: after the scan of a directory, a child named node_modules has no
\* entry, whether an entry point is found in it or not; a child that is a
\* .js file has an entry under its name without .js whose functionPath is
\* that file; a child directory (with no .js in its name) has an entry
\* under its name whose functionPath is the entry point found in it, and
\* has none when no entry point is found.  Children whose names give the
\* same key as another child's are left aside.
C17_ScanRegisters ==
  reg.done =>
    \A k \in 1..Len(reg.children) :
      LET child == reg.children[k]
          key == RegistryKey(child)
          file == FunctionPath(reg.dir, child.name)
      IN OnlyOne(child) =>
           /\ child.name = NodeModules => key \notin DOMAIN reg.functions
           /\ IsJsFile(child) =>
                /\ key \in DOMAIN reg.functions
                /\ reg.functions[key].functionPath = file
           /\ (child.kind = "directory" /\ key = child.name
                  /\ child.name # NodeModules) =>
                IF child.found
                THEN /\ key \in DOMAIN reg.functions
                     /\ reg.functions[key].functionPath = HandlerPath(file, child)
                ELSE key \notin DOMAIN reg.functions

\* Invocation j is started in this step, for the registered handler n.
Dispatching(j, n) ==
  inv[j].phase = "idle" /\ inv'[j].phase # "idle" /\ inv'[j].func = n

\* Invocation i is the latest one started for handler n before j.
LastBefore(i, j, n) ==
  /\ i < j /\ inv[i].func = n /\ inv[i].phase \in {"invoked", "loaderror"}
  /\ \A k \in Invs : (i < k /\ k < j) => inv[k].func # n

\* A load of handler n in the current state reads and runs the file.
LoadsFromDisk(n) ==
  cache[PathOf[n]] = NoModule /\ disk[PathOf[n]].kind # "missing"

\* The require of invocation i returned a module: its handler was called,
\* or the module was found to export no handler.
RequireReturned(i) ==
  \/ inv[i].phase = "invoked"
  \/ /\ inv[i].phase = "loaderror"
     /\ inv[i].response.chunks =
          <<ErrText(LoaderError("must export a function named handler"))>>

\* C18 (as claimed): an invocation of a handler that follows another one
\* of the same handler with no watcher event of that handler delivered in
\* between does not load the file from disk again, and when both call a
\* handler they call the same module instance.
C18_LoadedOncePerEviction ==
  [][\A i, j \in Invs, n \in Names :
       (Dispatching(j, n) /\ ~delivered[n] /\ LastBefore(i, j, n)) =>
         /\ ~LoadsFromDisk(n)
         /\ (inv[i].phase = "invoked" /\ inv'[j].phase = "invoked") =>
              inv'[j].module = inv[i].module]_vars

\* C18 (amended): when the require of the earlier invocation returned a
\* module, the later one, with no watcher event of the handler delivered
\* in between, does not load the file from disk, leaves the cache as it is
\* and gets the same module instance, also when the file has been edited.
C18_CachedModuleReused ==
  [][\A i, j \in Invs, n \in Names :
       (/\ Dispatching(j, n) /\ ~delivered[n]
        /\ LastBefore(i, j, n) /\ RequireReturned(i)) =>
         /\ ~LoadsFromDisk(n)
         /\ cache' = cache
         /\ inv'[j].phase = inv[i].phase
         /\ inv'[j].module = inv[i].module]_vars

\* C18 witness: two invocations of one handler ran the same module while
\* the file on disk is already another version whose event is pending.
C18_Witness ==
  \E i, j \in Invs, n \in Names :
    /\ i < j /\ inv[i].func = n /\ inv[j].func = n
    /\ inv[i].phase = "invoked" /\ inv[j].phase = "invoked"
    /\ inv[i].module = inv[j].module
    /\ cache[PathOf[n]] = inv[j].module
    /\ disk[PathOf[n]] # inv[j].module
    /\ ~delivered[n] /\ pending[n] # <<>>

\* Invocation i has been completed once, by a call that returned.
CompletedOnce(i) ==
  /\ inv[i].phase = "invoked"
  /\ HandlerCalls(i) + inv[i].promiseCalls = 1
  /\ ~inv[i].cbThrew

\* C19: a watcher callback changes nothing of any invocation; an
\* invocation that runs a handler keeps the module it loaded through every
\* step of the server; and one that is completed once, by a call that
\* returned, has exactly one response, whatever was evicted meanwhile.
C19_EvictionLeavesPending ==
  [][/\ \A n \in Names : Evicting(n) => inv' = inv
     /\ \A i \in Invs :
          inv[i].phase = "invoked" =>
            /\ inv'[i].phase = "invoked"
            /\ inv'[i].func = inv[i].func
            /\ inv'[i].module = inv[i].module
     /\ \A i \in Invs : CompletedOnce(i)' => OneResponse(inv'[i].response)]_vars

\* C19 witness: an invocation that loaded version 0 was completed after
\* its handler had returned, with one response, and a later invocation of
\* the same handler runs version 1: the eviction came in between.
C19_Witness ==
  \E i, j \in Invs :
    /\ i < j /\ inv[i].func = inv[j].func
    /\ inv[i].phase = "invoked" /\ inv[j].phase = "invoked"
    /\ inv[i].module.ver = 0 /\ inv[j].module.ver = 1
    /\ inv[i].syncCalls = 0 /\ CompletedOnce(i)
    /\ OneResponse(inv[i].response)

\* The handler of invocation i has called the callback, or the promise it
\* returned has settled.
Signalled(i) ==
  inv[i].phase = "invoked" /\ (HandlerCalls(i) > 0 \/ inv[i].promise = "settled")

\* C20: an invocation whose handler has called the callback, or whose
\* promise has settled, with whatever arguments, value or reason, is
\* eventually answered: its response is written and ended.
C20_SignalledIsAnswered ==
  \A i \in Invs :
    Signalled(i) ~> (inv[i].response.ended /\ inv[i].response.chunks # <<>>)

====
